---- MODULE Spec2Model ----
(***************************************************************************)
(* Model of jlink_new_jdk (sdk/mx.sdk/mx_sdk_vm.py): the derivation of a   *)
(* new JDK image from a source JDK and a list of module distributions.     *)
(*                                                                         *)
(* Strings that the code builds (module names, joined lists, messages) are *)
(* sequences of character codes, so that join and sorted are modelled by   *)
(* what they do on characters.                                             *)
(*                                                                         *)
(* One set of actions, five specifications that differ in the calls they   *)
(* start from: Spec (any list of supplied modules), LinkSpec (what the     *)
(* capability probes find, the optional arguments), RunSpec (the java.base *)
(* archive, the policy, verbosity), SrcSpec (the source archives),         *)
(* StaticSpec (the static libraries of the source JDK).                    *)
(*                                                                         *)
(* The component registry (GraalVmComponent, register_graalvm_component,   *)
(* graalvm_component_by_name) has its own actions and two specifications:  *)
(* RegistrySpec (which components are declared, and in what order) and     *)
(* ComponentSpec (the arguments of the constructor).                       *)
(***************************************************************************)
EXTENDS Naturals, Sequences, FiniteSets, TLC

(* ---------------------------------------------------------------- bounds *)

\* Most qualified-export targets one supplied module lists (over all its packages).
MaxTargets == 2
\* Longest explicit root_module_names list a caller passes.
MaxRoots == 2

(* ------------------------------------------------------------ characters *)

\* '.' and ',' : the separators of the two join calls.
Dot == 46
Comma == 44
\* '/' : the last character of a directory entry of an archive.
Slash == 47

\* "java.base" and "jdk.aot", the two module names the code spells out.
JavaBase == <<106, 97, 118, 97, 46, 98, 97, 115, 101>>
JdkAot == <<106, 100, 107, 46, 97, 111, 116>>

\* "jdk.internal.vm.compiler", the module line 760 looks for.
GraalCompiler ==
    <<106, 100, 107, 46, 105, 110, 116, 101, 114, 110, 97, 108, 46, 118, 109, 46,
      99, 111, 109, 112, 105, 108, 101, 114>>

\* The magic bytes of a jmod file: b'JM\x01\x00'.
JmodMagic == <<74, 77, 1, 0>>

\* "lib/security/default.policy"
PolicyFile ==
    <<108, 105, 98, 47, 115, 101, 99, 117, 114, 105, 116, 121, 47, 100, 101, 102, 97,
      117, 108, 116, 46, 112, 111, 108, 105, 99, 121>>

\* Other entries of java.base.jmod: "classes/module-info.class" and the
\* directory entry "lib/security/".
ModuleInfoClass ==
    <<99, 108, 97, 115, 115, 101, 115, 47, 109, 111, 100, 117, 108, 101, 45, 105, 110,
      102, 111, 46, 99, 108, 97, 115, 115>>
SecurityDir ==
    <<108, 105, 98, 47, 115, 101, 99, 117, 114, 105, 116, 121, 47>>

\* "module-info.java" and "X.java", file names inside a source archive.
ModuleInfoJava ==
    <<109, 111, 100, 117, 108, 101, 45, 105, 110, 102, 111, 46, 106, 97, 118, 97>>
XJava == <<88, 46, 106, 97, 118, 97>>

\* Names the inputs are drawn from: "a" and "b", and "a.b", which starts with "a".
NameA == <<97>>
NameB == <<98>>
NameAB == <<97, 46, 98>>
\* "c" and "a,b": a component name, and a name that line 406 or 407 rejects.
NameC == <<99>>
NameACommaB == <<97, 44, 98>>

SuppliedNames == {NameA, NameB}
TargetNames == {NameB, JdkAot}
RootNames == {NameB, JdkAot}
\* Source runtimes: jdk.get_modules() always holds java.base.
JdkChoices == {{JavaBase}, {JavaBase, NameB, JdkAot}}
IgnoreChoices == {{}, {NameB}}
\* Key sets of the hashes table that jmod describe java.base can report.
HashChoices == {{}, {JdkAot}}
Policies == {"create", "error", "None"}

\* Most entries of the java.base.jmod archive of the source JDK.
MaxEntries == 2

(* ------------------------------------------------------- string helpers *)

\* Python's str comparison: lexicographic by code point, a proper prefix first.
RECURSIVE StrLess(_, _)
StrLess(a, b) ==
    IF b = <<>> THEN FALSE
    ELSE IF a = <<>> THEN TRUE
    ELSE IF Head(a) # Head(b) THEN Head(a) < Head(b)
    ELSE StrLess(Tail(a), Tail(b))

\* sorted(names): ascending list of the elements of a set of strings.
RECURSIVE sorted(_)
sorted(S) ==
    IF S = {} THEN <<>>
    ELSE LET least == CHOOSE x \in S : \A y \in S \ {x} : StrLess(x, y)
         IN <<least>> \o sorted(S \ {least})

\* sep.join(parts)
RECURSIVE join(_, _)
join(sep, parts) ==
    IF parts = <<>> THEN <<>>
    ELSE IF Len(parts) = 1 THEN parts[1]
    ELSE parts[1] \o <<sep>> \o join(sep, Tail(parts))

\* All orders in which a set can be iterated.
Orders(S) ==
    {s \in [1..Cardinality(S) -> S] : \A i, j \in 1..Cardinality(S) : i # j => s[i] # s[j]}

\* All sequences over S of length at most n.
SeqUpTo(S, n) == UNION {[1..k -> S] : k \in 0..n}

(* ------------------------------------------------------------ the state *)

VARIABLES
    pc,                  \* position in jlink_new_jdk
    jdk_names,           \* names of jdk.get_modules()
    module_dists,        \* the distributions passed in, each with its module descriptor
    modules,             \* list of JavaModuleDescriptor (supplied, later + synthetic)
    ignore_module_names, \* names of ignore_dists
    missing_export_target_action,
    verbose,             \* mx.get_opts().verbose
    probe,               \* what each jdk_... capability probe of lines 495-545 comes to:
                         \* "yes", "no", or "exit" when its process exits non-zero
    vendor_info,         \* [given, items]: given = FALSE is None, items the dict's pairs
    dedup_legal_notices,
    release_file,        \* isfile(jdk.home/release)
    java_base_jmod,      \* jmods_dir/java.base.jmod: [header, entries], an entry being
                         \* [filename, member], a member the list of its statements
    jdk_src_zip,         \* jdk.home/lib/src.zip: [isfile, entries], an entry being
                         \* [name, contents]
    module_src_zips,     \* the <jar>.src.zip files that exist: module name -> entries
    with_source,         \* the dists with_source is true of: names of supplied modules,
                         \* <<>> for the dist (None) of a synthetic module
    lib_static,          \* jdk.home/lib/static: [exists, files], files mapping the path
                         \* of each file below it to the hash of its content
    root_module_names,   \* the argument once line 731 has read it: [given, names],
                         \* given = FALSE is None
    hashes,              \* module names with a hash recorded in java.base
    all_module_names,
    target_requires,     \* ordered dict: list of [name, requires]
    synthetic_modules,
    patched_java_base,   \* entries written to build_dir/java.base.jmod
    dst_src_zip_contents, \* dict: entry name -> contents
    policy_result,       \* "unset" until line 665 assigns it
    jlink,               \* the jlink command line: list of [opt, val]
    tools,               \* external processes the call has run so far, in order
                         \* (those of the capability probes aside)
    build_dir,           \* TRUE while <dst_jdk_dir>.build exists
    dst_jdk_dir,         \* what exists at the destination: "image", "lib/src.zip", ...
    dst_src_zip,         \* the entries written to dst_jdk_dir/lib/src.zip, in order
    dst_static,          \* dst_jdk_dir/lib/static: [raised, exists, files], raised being
                         \* what mx.copytree raised ("not run" before line 799)
    abort,               \* the mx.abort / failure that ended the call, if any
    declared,            \* the GraalVmComponent(...) calls the suites make, in order:
                         \* the arguments of each
    components,          \* the GraalVmComponent objects constructed so far; an object
                         \* is referred to by its position in this list
    registered,          \* the objects whose register_graalvm_component call returned
    _graalvm_components, \* line 80: dict, short_name -> object
    _graalvm_components_by_name,   \* line 81: dict, name -> object
    found,               \* the last graalvm_component_by_name call and what it gave
    exception            \* what ended the loading of the components, if anything:
                         \* "mx.abort", "AssertionError", "KeyError"

\* What the caller and the machine give: no step of the call assigns these.
given == <<jdk_names, module_dists, ignore_module_names, missing_export_target_action,
           verbose, probe, vendor_info, dedup_legal_notices, release_file, java_base_jmod,
           jdk_src_zip, module_src_zips, with_source, lib_static>>

\* What the resolution of lines 590-644 computes.
resolved == <<modules, hashes, all_module_names, target_requires, synthetic_modules>>

\* What lines 646-723 prepare for jlink.
staged == <<patched_java_base, policy_result, dst_src_zip_contents>>

\* The jlink command of lines 726-778.
command == <<root_module_names, jlink>>

\* What the call leaves on disk.
disk == <<build_dir, dst_jdk_dir, dst_src_zip, dst_static>>

\* The component registry of lines 80-81 and the calls that fill and read it.
registry == <<declared, components, registered, _graalvm_components,
              _graalvm_components_by_name, found, exception>>

vars == <<pc, given, resolved, staged, command, tools, disk, abort, registry>>

NoAbort == [kind |-> "none", text |-> <<>>, available |-> <<>>]
Failure(kind) == [kind |-> kind, text |-> <<>>, available |-> <<>>]

\* A supplied module: its exports field is the list of targets in the order the
\* loops over jmd.exports.values() and over each targets collection visit them.
Descriptor(name, exports, requires) ==
    [name |-> name, exports |-> exports, requires |-> requires, uses |-> {}, provides |-> {}]

SuppliedModules ==
    {Descriptor(n, e, {}) : n \in SuppliedNames, e \in SeqUpTo(TargetNames, MaxTargets)}

\* module_dists: any list of supplied modules with pairwise different names.
ModuleLists ==
    {ms \in SeqUpTo(SuppliedModules, Cardinality(SuppliedNames)) :
        \A i, j \in 1..Len(ms) : i # j => ms[i].name # ms[j].name}

RootChoices ==
    {[given |-> FALSE, names |-> <<>>]}
        \cup {[given |-> TRUE, names |-> r] : r \in SeqUpTo(RootNames, MaxRoots)}

\* found before any call of graalvm_component_by_name.
NotCalled ==
    [name |-> <<>>, fatalIfMissing |-> FALSE, outcome |-> "not called", component |-> 0]

\* Lines 80-81 as the module body leaves them: nothing constructed, registered
\* or looked up yet.
NothingLoaded ==
    /\ components = <<>>
    /\ registered = <<>>
    /\ _graalvm_components = <<>>
    /\ _graalvm_components_by_name = <<>>
    /\ found = NotCalled
    /\ exception = "none"

\* No suite declares a component.
NoComponents ==
    /\ declared = <<>>
    /\ NothingLoaded

\* The state on entry to jlink_new_jdk, whatever the arguments.
Entry ==
    /\ pc = "start"
    /\ modules = <<>>
    /\ root_module_names = [given |-> FALSE, names |-> <<>>]
    /\ hashes = {}
    /\ all_module_names = {}
    /\ target_requires = <<>>
    /\ synthetic_modules = <<>>
    /\ patched_java_base = <<>>
    /\ policy_result = "unset"
    /\ dst_src_zip_contents = <<>>
    /\ dst_src_zip = <<>>
    /\ dst_static = [raised |-> "not run", exists |-> FALSE, files |-> <<>>]
    /\ jlink = <<>>
    /\ tools = <<>>
    /\ build_dir = FALSE
    /\ dst_jdk_dir = {}
    /\ abort = NoAbort

ProbeNames ==
    {"enables_jvmci_by_default", "has_new_jlink_options",
     "omits_warning_for_jlink_set_ThreadPriorityPolicy", "supports_enablejvmciproduct"}

\* The statements of the two blocks that lines 672-701 append to the policy: the
\* first of each block is the marker that lines 669 and 675 search the member for.
EnterpriseBlock == <<"grant jrt:/com.oracle.graal.graal_enterprise">>
TruffleBlock ==
    <<"grant jrt:/org.graalvm.truffle", "grant jrt:/org.graalvm.sdk",
      "grant jrt:/org.graalvm.locator", "grant file:${java.home}/languages/-">>

\* Contents of default.policy: other statements, with none, one or both markers.
PolicyTexts ==
    {<<>>, <<"other">>, <<"other">> \o EnterpriseBlock, TruffleBlock \o <<"other">>,
     EnterpriseBlock \o <<"other">> \o TruffleBlock}

ArchiveEntries ==
    {[filename |-> PolicyFile, member |-> m] : m \in PolicyTexts}
        \cup {[filename |-> ModuleInfoClass, member |-> <<"other">>],
              [filename |-> SecurityDir, member |-> <<>>]}

\* java.base.jmod files: a good or a bad header, entries with different names.
Archives ==
    {[header |-> h, entries |-> es] :
        h \in {JmodMagic, <<74, 77, 1>>, <<80, 75, 3, 4>>},
        es \in {e \in SeqUpTo(ArchiveEntries, MaxEntries) :
                  \A i, j \in 1..Len(e) : i # j => e[i].filename # e[j].filename}}

\* A stock java.base.jmod.
StockJavaBase ==
    java_base_jmod = [header |-> JmodMagic,
                      entries |-> <<[filename |-> ModuleInfoClass, member |-> <<"other">>],
                                    [filename |-> SecurityDir, member |-> <<>>],
                                    [filename |-> PolicyFile, member |-> <<"other">>]>>]

\* An entry name: the name of a module, '/', a file name or nothing (a directory).
EntryName(module, file) == module \o <<Slash>> \o file

\* The X.java of a module, as the source JDK has it or as its distribution has it.
JdkSource(module) ==
    [name |-> EntryName(module, XJava), contents |-> [origin |-> "jdk", of |-> module]]
DistSource(module) ==
    [name |-> XJava, contents |-> [origin |-> "dist", of |-> module]]

\* A source JDK with sources of java.base; no sources of the supplied modules;
\* with_source at its default, lambda x: True.
StockSources ==
    /\ jdk_src_zip = [isfile |-> TRUE, entries |-> <<JdkSource(JavaBase)>>]
    /\ module_src_zips = <<>>
    /\ with_source = SuppliedNames \cup {NameAB, GraalCompiler, <<>>}

\* The files of jdk.home/lib/static: none, or a library, or a library in a
\* subdirectory, or both.
StaticTrees ==
    {<<>>, [f \in {<<"libjava.a">>} |-> "sha1 of libjava.a"],
     [f \in {<<"server", "libjvm.a">>} |-> "sha1 of libjvm.a"],
     [f \in {<<"libjava.a">>, <<"server", "libjvm.a">>} |->
         IF f = <<"libjava.a">> THEN "sha1 of libjava.a" ELSE "sha1 of libjvm.a"]}

\* A source JDK of the older layout: no lib/static directory.
NoStaticDir == lib_static = [exists |-> FALSE, files |-> <<>>]

\* A recent source JDK and the defaults of the optional arguments.
RecentJdkDefaults ==
    /\ probe = [p \in ProbeNames |-> "yes"]
    /\ vendor_info = [given |-> FALSE, items |-> <<>>]
    /\ dedup_legal_notices = TRUE
    /\ release_file = TRUE

VendorChoices ==
    {[given |-> FALSE, items |-> <<>>],
     [given |-> TRUE, items |-> <<>>],
     [given |-> TRUE, items |-> <<[name |-> "vendor-version", value |-> "GraalVM"]>>]}

\* Calls that differ in what the probes find and in the optional arguments:
\* no supplied module, or one exporting to a module "b" the source JDK lacks.
LinkInit ==
    /\ Entry
    /\ NoComponents
    /\ jdk_names = {JavaBase}
    /\ module_dists \in {<<>>, <<Descriptor(NameA, <<NameB>>, {})>>,
                          <<Descriptor(GraalCompiler, <<NameB>>, {})>>}
    /\ ignore_module_names = {}
    /\ missing_export_target_action = "create"
    /\ verbose = FALSE
    /\ probe \in [ProbeNames -> {"yes", "no", "exit"}]
    /\ vendor_info \in VendorChoices
    /\ dedup_legal_notices \in BOOLEAN
    /\ release_file \in BOOLEAN
    /\ NoStaticDir
    /\ StockJavaBase
    /\ StockSources

\* Calls that differ in the java.base archive, the policy and the verbosity.
RunInit ==
    /\ Entry
    /\ NoComponents
    /\ jdk_names = {JavaBase}
    /\ module_dists \in {<<>>, <<Descriptor(NameA, <<NameB>>, {})>>}
    /\ ignore_module_names = {}
    /\ missing_export_target_action \in Policies
    /\ verbose \in BOOLEAN
    /\ RecentJdkDefaults
    /\ java_base_jmod \in Archives
    /\ StockSources
    /\ lib_static \in {[exists |-> FALSE, files |-> <<>>],
                       [exists |-> TRUE, files |-> <<>>]}

\* The src.zip of the source JDK: missing, or with sources of java.base and of
\* modules "a" and "a.b" (and a directory entry), listed in some order.
JdkSrcZips ==
    {[isfile |-> FALSE, entries |-> <<>>]}
        \cup {[isfile |-> TRUE, entries |-> es] :
                 es \in {<<>>, <<JdkSource(NameAB)>>,
                         <<JdkSource(JavaBase), JdkSource(NameA), JdkSource(NameAB)>>,
                         <<[name |-> EntryName(NameA, <<>>), contents |-> <<>>],
                           JdkSource(NameAB), JdkSource(NameA)>>}}

\* Calls that differ in the sources: supplied modules "a" and "a.b" in either
\* order, "a" with or without an export to the missing module "b".
SrcInit ==
    /\ Entry
    /\ NoComponents
    /\ jdk_names = {JavaBase}
    /\ module_dists \in
          {ms \in SeqUpTo({Descriptor(NameA, <<>>, {}), Descriptor(NameA, <<NameB>>, {}),
                           Descriptor(NameAB, <<>>, {})}, 2) :
              \A i, j \in 1..Len(ms) : i # j => ms[i].name # ms[j].name}
    /\ ignore_module_names = {}
    /\ missing_export_target_action = "create"
    /\ verbose = FALSE
    /\ RecentJdkDefaults
    /\ StockJavaBase
    /\ jdk_src_zip \in JdkSrcZips
    /\ module_src_zips \in
          {<<>>, [m \in {NameA, NameAB} |->
                    <<DistSource(m), [name |-> <<Slash>>, contents |-> <<>>]>>]}
    /\ with_source \in {{}, {NameA}, {NameAB, <<>>}, {NameA, NameAB, <<>>}}
    /\ NoStaticDir

\* Calls that differ in the static libraries of the source JDK: an older JDK
\* has no lib/static directory.
StaticInit ==
    /\ Entry
    /\ NoComponents
    /\ jdk_names = {JavaBase}
    /\ module_dists \in {<<>>, <<Descriptor(NameA, <<NameB>>, {})>>}
    /\ ignore_module_names = {}
    /\ missing_export_target_action = "create"
    /\ verbose = FALSE
    /\ probe = [p \in ProbeNames |-> "yes"]
    /\ vendor_info = [given |-> FALSE, items |-> <<>>]
    /\ dedup_legal_notices = TRUE
    /\ release_file = TRUE
    /\ lib_static \in {[exists |-> FALSE, files |-> <<>>]}
                          \cup {[exists |-> TRUE, files |-> t] : t \in StaticTrees}
    /\ StockJavaBase
    /\ StockSources

\* Calls with any module list, on a quiet run.
Init ==
    /\ Entry
    /\ NoComponents
    /\ jdk_names \in JdkChoices
    /\ module_dists \in ModuleLists
    /\ ignore_module_names \in IgnoreChoices
    /\ missing_export_target_action \in Policies
    /\ verbose = FALSE
    /\ RecentJdkDefaults
    /\ StockJavaBase
    /\ StockSources
    /\ NoStaticDir

(* --------------------------------------------------------- the pipeline *)

\* jdk_modules = {jmd.name: jmd ... if jmd.name != 'jdk.aot'} (its key set)
jdk_modules(names) == names \ {JdkAot}

\* frozenset(list(jdk_modules.keys()) + [m.name for m in modules])
AllModuleNames(jdkNames, ms) ==
    jdk_modules(jdkNames) \cup {ms[i].name : i \in 1..Len(ms)}

\* setdefault_add that makes a new entry for every occurrence of a target.
setdefault_add_AlwaysNew(tr, target, name) ==
    Append(tr, [name |-> target, requires |-> {name}])

\* setdefault_add that keeps only the last module listing a target.
RECURSIVE setdefault_add_Overwrite(_, _, _)
setdefault_add_Overwrite(tr, target, name) ==
    IF tr = <<>> THEN <<[name |-> target, requires |-> {name}]>>
    ELSE IF Head(tr).name = target
         THEN <<[Head(tr) EXCEPT !.requires = {name}]>> \o Tail(tr)
         ELSE <<Head(tr)>> \o setdefault_add_Overwrite(Tail(tr), target, name)

\* target_requires.setdefault(target, set()).add(name) on the ordered dict tr
RECURSIVE setdefault_add(_, _, _)
setdefault_add(tr, target, name) ==
    IF tr = <<>> THEN <<[name |-> target, requires |-> {name}]>>
    ELSE IF Head(tr).name = target
         THEN <<[Head(tr) EXCEPT !.requires = @ \cup {name}]>> \o Tail(tr)
         ELSE <<Head(tr)>> \o setdefault_add(Tail(tr), target, name)

\* The test of line 617.
IsMissingTarget(target, all, ignore, hashed) ==
    target \notin all /\ target \notin ignore /\ target \notin hashed

\* Lines 615-618 for one module: every target of every export.
RECURSIVE ScanTargets(_, _, _, _, _, _)
ScanTargets(tr, name, targets, all, ignore, hashed) ==
    IF targets = <<>> THEN tr
    ELSE ScanTargets(IF IsMissingTarget(Head(targets), all, ignore, hashed)
                     THEN setdefault_add(tr, Head(targets), name)
                     ELSE tr,
                     name, Tail(targets), all, ignore, hashed)

\* Lines 613-618: the loop over modules, from the dict tr built so far.
RECURSIVE ScanModules(_, _, _, _, _)
ScanModules(tr, ms, all, ignore, hashed) ==
    IF ms = <<>> THEN tr
    ELSE ScanModules(ScanTargets(tr, Head(ms).name, Head(ms).exports, all, ignore, hashed),
                     Tail(ms), all, ignore, hashed)

TargetRequires(ms, all, ignore, hashed) == ScanModules(<<>>, ms, all, ignore, hashed)

\* target_requires.keys(), in the dict's order
Keys(tr) == [i \in 1..Len(tr) |-> tr[i].name]

\* UnresolvedMessage that names the first missing target only.
UnresolvedMessage_FirstOnly(tr) ==
    [kind |-> "unresolved targets", text |-> Keys(tr)[1], available |-> <<>>]

\* Line 621: the text after 'Target(s) of qualified exports cannot be resolved: '.
UnresolvedMessage(tr) ==
    [kind |-> "unresolved targets", text |-> join(Dot, Keys(tr)), available |-> <<>>]

\* Line 626: JavaModuleDescriptor(name, {}, requires={...}, uses=set(), provides={}).
SyntheticDescriptor(name, requires) ==
    [name |-> name, exports |-> <<>>, requires |-> requires, uses |-> {}, provides |-> {}]

\* InvalidModulesMessage that names one missing module only.
InvalidModulesMessage_OneMissing(order, all) ==
    [kind |-> "invalid modules", text |-> order[1],
     available |-> join(Comma, sorted(all))]

\* Line 734: the names after 'Invalid module(s): ' and after 'Available modules: ';
\* order is the order in which the frozenset missing happens to be iterated.
InvalidModulesMessage(order, all) ==
    [kind |-> "invalid modules", text |-> join(Comma, order),
     available |-> join(Comma, sorted(all))]

\* AddModules that lists the default roots in descending order.
AddModules_Unsorted(roots, all) ==
    IF roots.given THEN join(Comma, roots.names)
    ELSE LET up == sorted(all)
         IN join(Comma, [i \in 1..Len(up) |-> up[Len(up) + 1 - i]])

\* Lines 735 and 737: the value of --add-modules.
AddModules(roots, all) ==
    IF roots.given THEN join(Comma, roots.names) ELSE join(Comma, sorted(all))

\* ModulePath with the jmods directory ahead of the patched java.base.
ModulePath_JmodsFirst(ms) ==
    [i \in 1..Len(ms) |-> [kind |-> "jmod", of |-> ms[i].name]]
        \o <<[kind |-> "jmods dir", of |-> <<>>],
             [kind |-> "patched java.base", of |-> JavaBase]>>

\* Lines 739-741: the entries of --module-path, in the order os.pathsep joins them:
\* m.get_jmod_path() of every module, build_dir/java.base.jmod, jdk.home/jmods.
ModulePath(ms) ==
    LET module_path == <<[kind |-> "patched java.base", of |-> JavaBase],
                         [kind |-> "jmods dir", of |-> <<>>]>>
    IN IF ms # <<>>
       THEN [i \in 1..Len(ms) |-> [kind |-> "jmod", of |-> ms[i].name]] \o module_path
       ELSE module_path

\* Lines 575-592: the checks of the source JDK, then the initial universe.
CheckJdk ==
    /\ pc = "start"
    /\ \E usable \in BOOLEAN :
        IF usable
        THEN /\ modules' = module_dists
             /\ all_module_names' = AllModuleNames(jdk_names, module_dists)
             /\ pc' = "describe"
             /\ abort' = abort
        ELSE /\ abort' = Failure("cannot derive")
             /\ pc' = "aborted"
             /\ UNCHANGED <<modules, all_module_names>>
    /\ UNCHANGED registry
    /\ UNCHANGED <<given, hashes, target_requires, synthetic_modules, staged, command,
                   tools, disk>>

\* Lines 594-608: jmod describe of java.base, the hashes table, the build directory.
JmodDescribe ==
    /\ pc = "describe"
    /\ tools' = Append(tools, "jmod describe")
    /\ \E outcome \in {"ok", "non-zero exit", "bad hashes line"} :
        IF outcome = "ok"
        THEN /\ hashes' \in HashChoices
             /\ build_dir' = TRUE
             /\ pc' = "resolve"
             /\ abort' = abort
        ELSE /\ abort' = Failure(outcome)
             /\ pc' = "aborted"
             /\ UNCHANGED <<hashes, build_dir>>
    /\ UNCHANGED registry
    /\ UNCHANGED <<given, modules, all_module_names, target_requires, synthetic_modules,
                   staged, command, dst_jdk_dir, dst_src_zip, dst_static>>

\* PolicyOutcome without the 'is not None' test of line 619.
PolicyOutcome_NoneCreates(tr, action) ==
    IF tr # <<>>
    THEN IF action = "error" THEN "abort" ELSE "create"
    ELSE "skip"

\* PolicyOutcome without the 'target_requires and' test of line 619.
PolicyOutcome_EmptyStillActs(tr, action) ==
    IF action # "None"
    THEN IF action = "error" THEN "abort" ELSE IF tr # <<>> THEN "create" ELSE "skip"
    ELSE "skip"

\* PolicyOutcome with policy error taken for None.
PolicyOutcome_ErrorIgnored(tr, action) ==
    IF tr # <<>> /\ action = "create" THEN "create" ELSE "skip"

\* Lines 619-622: what the policy asks for, given the dict of missing targets.
PolicyOutcome(tr, action) ==
    IF tr # <<>> /\ action # "None"
    THEN IF action = "error" THEN "abort" ELSE "create"
    ELSE "skip"

\* ResolveTargets with the policy error raised only after the first javac run.
ResolveTargets_LateError ==
    /\ pc = "resolve"
    /\ LET tr == TargetRequires(modules, all_module_names, ignore_module_names, hashes)
           outcome == PolicyOutcome(tr, missing_export_target_action)
       IN /\ target_requires' = tr
          /\ abort' = IF outcome = "abort" THEN UnresolvedMessage(tr) ELSE abort
          /\ tools' = IF outcome = "abort" THEN Append(tools, "javac") ELSE tools
          /\ pc' = CASE outcome = "abort" -> "finally"
                     [] outcome = "create" -> "javac"
                     [] OTHER -> "patch"
    /\ UNCHANGED registry
    /\ UNCHANGED <<given, modules, hashes, all_module_names, synthetic_modules, staged,
                   command,                    disk>>

\* Lines 610-622: collect the missing targets, then act on the policy.
ResolveTargets ==
    /\ pc = "resolve"
    /\ LET tr == TargetRequires(modules, all_module_names, ignore_module_names, hashes)
           outcome == PolicyOutcome(tr, missing_export_target_action)
       IN /\ target_requires' = tr
          /\ abort' = IF outcome = "abort" THEN UnresolvedMessage(tr) ELSE abort
          /\ pc' = CASE outcome = "abort" -> "finally"
                     [] outcome = "create" -> "javac"
                     [] OTHER -> "patch"
    /\ UNCHANGED registry
    /\ UNCHANGED <<given, modules, hashes, all_module_names, synthetic_modules, staged,
                   command, tools, disk>>

\* SynthJavac that goes on to jmod create whatever javac's exit code is.
SynthJavac_IgnoresExit ==
    /\ pc = "javac"
    /\ LET item == target_requires[Len(synthetic_modules) + 1]
       IN synthetic_modules' =
              Append(synthetic_modules, SyntheticDescriptor(item.name, item.requires))
    /\ tools' = Append(tools, "javac")
    /\ \E ok \in BOOLEAN :
        /\ pc' = "jmod create"
        /\ abort' = IF ok THEN abort ELSE Failure("javac failed")
    /\ UNCHANGED registry
    /\ UNCHANGED <<given, modules, hashes, all_module_names, target_requires, staged,
                   command, disk>>

\* Lines 624-636: the next entry of target_requires: make its descriptor, run javac.
SynthJavac ==
    /\ pc = "javac"
    /\ LET item == target_requires[Len(synthetic_modules) + 1]
       IN synthetic_modules' =
              Append(synthetic_modules, SyntheticDescriptor(item.name, item.requires))
    /\ tools' = Append(tools, "javac")
    /\ \E ok \in BOOLEAN :
        IF ok
        THEN /\ pc' = "jmod create"
             /\ abort' = abort
        ELSE /\ pc' = "finally"
             /\ abort' = Failure("javac failed")
    /\ UNCHANGED registry
    /\ UNCHANGED <<given, modules, hashes, all_module_names, target_requires, staged,
                   command, disk>>

\* SynthJmod without the recomputation of all_module_names (line 644).
SynthJmod_StaleUniverse ==
    /\ pc = "jmod create"
    /\ tools' = Append(tools, "jmod create")
    /\ \E ok \in BOOLEAN :
        IF ~ok
        THEN /\ pc' = "finally"
             /\ abort' = Failure("jmod create failed")
             /\ UNCHANGED modules
        ELSE /\ abort' = abort
             /\ IF Len(synthetic_modules) < Len(target_requires)
                THEN /\ pc' = "javac"
                     /\ UNCHANGED modules
                ELSE /\ pc' = "patch"
                     /\ modules' = modules \o synthetic_modules
    /\ UNCHANGED registry
    /\ UNCHANGED <<given, hashes, all_module_names, target_requires, synthetic_modules,
                   staged, command, disk>>

\* Lines 637-644: jar and jmod of that entry; after the last one the synthetic
\* modules join modules and all_module_names is recomputed.
SynthJmod ==
    /\ pc = "jmod create"
    /\ tools' = Append(tools, "jmod create")
    /\ \E ok \in BOOLEAN :
        IF ~ok
        THEN /\ pc' = "finally"
             /\ abort' = Failure("jmod create failed")
             /\ UNCHANGED <<modules, all_module_names>>
        ELSE /\ abort' = abort
             /\ IF Len(synthetic_modules) < Len(target_requires)
                THEN /\ pc' = "javac"
                     /\ UNCHANGED <<modules, all_module_names>>
                ELSE /\ pc' = "patch"
                     /\ modules' = modules \o synthetic_modules
                     /\ all_module_names' =
                            AllModuleNames(jdk_names, modules \o synthetic_modules)
    /\ UNCHANGED registry
    /\ UNCHANGED <<given, hashes, target_requires, synthetic_modules, staged, command, disk>>

\* PatchMember that appends the enterprise grant without looking for its marker.
PatchMember_AlwaysAppends(member) ==
    LET first == member \o EnterpriseBlock
        second == IF TruffleBlock[1] \notin {first[k] : k \in 1..Len(first)}
                  THEN first \o TruffleBlock ELSE first
    IN [result |-> "modified", member |-> second]

\* Lines 668-701: the new content of lib/security/default.policy and the result.
PatchMember(member) ==
    LET lacks(marker, m) == marker \notin {m[k] : k \in 1..Len(m)}
        first == IF lacks(EnterpriseBlock[1], member)
                 THEN member \o EnterpriseBlock ELSE member
        second == IF lacks(TruffleBlock[1], first) THEN first \o TruffleBlock ELSE first
    IN [result |-> IF lacks(EnterpriseBlock[1], member) \/ lacks(TruffleBlock[1], first)
                   THEN "modified" ELSE "unmodified",
        member |-> second]

\* Lines 663-702: the loop over src_zip.infolist(), from the result and the
\* destination entries so far.
RECURSIVE PatchEntries(_, _, _)
PatchEntries(entries, result, written) ==
    IF entries = <<>> THEN [result |-> result, entries |-> written]
    ELSE LET i == Head(entries)
         IN IF i.filename[Len(i.filename)] = Slash
            THEN PatchEntries(Tail(entries), result, written)
            ELSE IF i.filename = PolicyFile
            THEN PatchEntries(Tail(entries), PatchMember(i.member).result,
                              Append(written, [i EXCEPT !.member = PatchMember(@).member]))
            ELSE PatchEntries(Tail(entries), result, Append(written, i))

\* Lines 665-702 for a whole archive.
PatchArchive(entries) == PatchEntries(entries, "not found", <<>>)

\* PatchVerdict that lets a missing policy file pass.
PatchVerdict_NotFoundPasses(result) == "go on"

\* Lines 704-705.
PatchVerdict(result) == IF result = "not found" THEN "abort" ELSE "go on"

\* d[k] = v on the dict d
Put(d, k, v) == [x \in DOMAIN d \cup {k} |-> IF x = k THEN v ELSE d[x]]

\* key.startswith(prefix)
startswith(key, prefix) ==
    Len(prefix) <= Len(key) /\ SubSeq(key, 1, Len(prefix)) = prefix

\* name.endswith('/')
EndsWithSlash(name) == name # <<>> /\ name[Len(name)] = Slash

\* Lines 652-654 and 718-720: the entries of a source archive that are not
\* directories go into the dict, each under prefix + its name.
RECURSIVE ReadSources(_, _, _)
ReadSources(d, prefix, entries) ==
    IF entries = <<>> THEN d
    ELSE ReadSources(IF EndsWithSlash(Head(entries).name) THEN d
                     ELSE Put(d, prefix \o Head(entries).name, Head(entries).contents),
                     prefix, Tail(entries))

\* Lines 647-656: the dict made from the src.zip of the source JDK.
JdkSources(zip) == IF zip.isfile THEN ReadSources(<<>>, <<>>, zip.entries) ELSE <<>>

\* WithoutModule that drops the keys under the directory of the module only.
WithoutModule_OwnDirectory(d, name) ==
    [key \in {k \in DOMAIN d : ~startswith(k, name \o <<Slash>>)} |-> d[key]]

\* Line 709: the dict without the keys that start with the name of the module.
WithoutModule(d, name) ==
    [key \in {k \in DOMAIN d : ~startswith(k, name)} |-> d[key]]

\* Lines 707-723: the loop over modules; a module in synth has no dist (None) and
\* no <jar>.src.zip; zips holds the <jar>.src.zip files that exist.
RECURSIVE ModuleSources(_, _, _, _, _)
ModuleSources(d, ms, synth, zips, ws) ==
    IF ms = <<>> THEN d
    ELSE LET jmd == Head(ms)
             dist == IF \E i \in 1..Len(synth) : synth[i] = jmd THEN <<>> ELSE jmd.name
             kept == WithoutModule(d, jmd.name)
             extracted == IF dist # <<>> /\ jmd.name \in DOMAIN zips
                          THEN ReadSources(kept, jmd.name \o <<Slash>>, zips[jmd.name])
                          ELSE kept
             added == Put(extracted, EntryName(jmd.name, ModuleInfoJava),
                          [origin |-> "as_module_info", of |-> jmd.name])
         IN ModuleSources(IF dist \in ws THEN added ELSE kept, Tail(ms), synth, zips, ws)

\* SortedItems that writes the entries from the greatest name down.
SortedItems_Descending(d) ==
    LET names == sorted(DOMAIN d)
    IN [i \in 1..Len(names) |->
           [name |-> names[Len(names) + 1 - i], contents |-> d[names[Len(names) + 1 - i]]]]

\* Line 791: sorted(dst_src_zip_contents.items()); no two items have the same name.
SortedItems(d) ==
    LET names == sorted(DOMAIN d)
    IN [i \in 1..Len(names) |-> [name |-> names[i], contents |-> d[names[i]]]]

\* Lines 646-723: sources of the source JDK, the patched java.base, module sources.
PatchJavaBase ==
    /\ pc = "patch"
    /\ IF Len(java_base_jmod.header) # 4 \/ java_base_jmod.header # JmodMagic
       THEN /\ pc' = "finally"
            /\ abort' = Failure("unexpected jmod header")
            /\ dst_src_zip_contents' = JdkSources(jdk_src_zip)
            /\ UNCHANGED <<patched_java_base, policy_result>>
       ELSE LET patched == PatchArchive(java_base_jmod.entries)
            IN /\ patched_java_base' = patched.entries
               /\ policy_result' = patched.result
               /\ IF PatchVerdict(patched.result) = "abort"
                  THEN /\ pc' = "finally"
                       /\ abort' = Failure("policy not found")
                       /\ dst_src_zip_contents' = JdkSources(jdk_src_zip)
                  ELSE /\ pc' = "link"
                       /\ abort' = abort
                       /\ dst_src_zip_contents' =
                              ModuleSources(JdkSources(jdk_src_zip), modules,
                                            synthetic_modules, module_src_zips, with_source)
    /\ UNCHANGED registry
    /\ UNCHANGED <<given, resolved, command, tools, disk>>

\* An option of the jlink command that has no value.
Flag(o) == [opt |-> o, val |-> <<>>]

\* Lines 728-730.
JvmciOff(p) ==
    IF p["enables_jvmci_by_default"] = "yes"
    THEN <<Flag("-J-XX:-EnableJVMCI"), Flag("-J-XX:-UseJVMCICompiler")>>
    ELSE <<>>

\* AddOptions that sets the thread priority policy without asking the probe.
AddOptions_NoWarningProbe(ms, synth, p) ==
    LET thread_priority_policy_option == <<"-XX:ThreadPriorityPolicy=1">>
    IN IF p["supports_enablejvmciproduct"] = "yes"
       THEN <<[opt |-> "--add-options",
               val |-> <<"-XX:+UnlockExperimentalVMOptions", "-XX:+EnableJVMCIProduct",
                         "-XX:-UnlockExperimentalVMOptions">>
                           \o thread_priority_policy_option]>>
       ELSE <<[opt |-> "--add-options", val |-> thread_priority_policy_option]>>

\* Lines 753-771, taken when jdk_has_new_jlink_options: the --add-options argument,
\* its value as the list of the VM flags that spaces separate. Modules compare by
\* name, so non_synthetic_modules are the names of ms that no synthetic module has.
AddOptions(ms, synth, p) ==
    LET thread_priority_policy_option ==
            IF p["omits_warning_for_jlink_set_ThreadPriorityPolicy"] = "yes"
            THEN <<"-XX:ThreadPriorityPolicy=1">> ELSE <<>>
        non_synthetic_modules ==
            {ms[i].name : i \in 1..Len(ms)} \ {synth[i].name : i \in 1..Len(synth)}
    IN IF p["supports_enablejvmciproduct"] = "yes"
       THEN <<[opt |-> "--add-options",
               val |-> <<"-XX:+UnlockExperimentalVMOptions", "-XX:+EnableJVMCIProduct">>
                           \o (IF GraalCompiler \in non_synthetic_modules
                               THEN <<>> ELSE <<"-XX:-UseJVMCICompiler">>)
                           \o <<"-XX:-UnlockExperimentalVMOptions">>
                           \o thread_priority_policy_option]>>
       ELSE IF thread_priority_policy_option # <<>>
            THEN <<[opt |-> "--add-options", val |-> thread_priority_policy_option]>>
            ELSE <<>>

\* Lines 772-774: one option per pair of vendor_info, in the dict's order.
VendorOptions(vi) ==
    IF vi.given
    THEN [i \in 1..Len(vi.items) |->
             [opt |-> "--" \o vi.items[i].name, val |-> vi.items[i].value]]
    ELSE <<>>

\* Lines 726-778: the arguments of the jlink command after the executable.
JlinkCommand(roots, all, ms, synth, p, vi, dedup, release) ==
    JvmciOff(p)
        \o <<[opt |-> "--add-modules", val |-> AddModules(roots, all)],
             [opt |-> "--module-path", val |-> ModulePath(ms)],
             Flag("--output"),
             Flag("-J-XX:+UseSerialGC"), Flag("-J-Xms32M"), Flag("-J-Xmx512M"),
             Flag("-J-XX:TieredStopAtLevel=1"), Flag("-J-Dlink.debug=true")>>
        \o (IF dedup THEN <<[opt |-> "--dedup-legal-notices",
                              val |-> "error-if-not-same-content"]>> ELSE <<>>)
        \o <<Flag("--keep-packaged-modules")>>
        \o (IF p["has_new_jlink_options"] = "yes"
            THEN AddOptions(ms, synth, p) \o VendorOptions(vi) ELSE <<>>)
        \o (IF release THEN <<Flag("--release-info")>> ELSE <<>>)

\* A probe that lines 752-759 run has a process that exits non-zero.
LinkProbeExits(p) ==
    \/ p["has_new_jlink_options"] = "exit"
    \/ /\ p["has_new_jlink_options"] = "yes"
       /\ \/ p["omits_warning_for_jlink_set_ThreadPriorityPolicy"] = "exit"
          \/ p["supports_enablejvmciproduct"] = "exit"

\* Lines 726-786: the root modules, the jlink command line, the jlink run.
LinkImage ==
    /\ pc = "link"
    /\ IF probe["enables_jvmci_by_default"] = "exit"
       THEN /\ abort' = Failure("probe failed")
            /\ pc' = "finally"
            /\ UNCHANGED <<command, tools, dst_jdk_dir>>
       ELSE \E roots \in RootChoices :
            /\ root_module_names' = roots
            /\ LET missing ==
                       {roots.names[i] : i \in 1..Len(roots.names)} \ all_module_names
               IN IF roots.given /\ missing # {}
                  THEN /\ \E order \in Orders(missing) :
                            abort' = InvalidModulesMessage(order, all_module_names)
                       /\ pc' = "finally"
                       /\ UNCHANGED <<jlink, tools, dst_jdk_dir>>
                  ELSE IF LinkProbeExits(probe)
                  THEN /\ abort' = Failure("probe failed")
                       /\ pc' = "finally"
                       /\ UNCHANGED <<jlink, tools, dst_jdk_dir>>
                  ELSE /\ jlink' = JlinkCommand(roots, all_module_names, modules,
                                                synthetic_modules, probe, vendor_info,
                                                dedup_legal_notices, release_file)
                       /\ tools' = Append(tools, "jlink")
                       /\ \E ok \in BOOLEAN :
                            IF ok
                            THEN /\ pc' = "post"
                                 /\ dst_jdk_dir' = {"image"}
                                 /\ abort' = abort
                            ELSE /\ pc' = "finally"
                                 /\ dst_jdk_dir' = dst_jdk_dir
                                 /\ abort' = Failure("jlink failed")
    /\ UNCHANGED registry
    /\ UNCHANGED <<given, resolved, staged, build_dir, dst_src_zip, dst_static>>

\* WriteSrcZip that removes the new image when the write fails.
WriteSrcZip_RemovesImage ==
    /\ pc = "post"
    /\ \E written \in BOOLEAN :
        IF written
        THEN /\ dst_jdk_dir' = dst_jdk_dir \cup {"lib/src.zip"}
             /\ dst_src_zip' = SortedItems(dst_src_zip_contents)
             /\ pc' = "static"
             /\ abort' = abort
        ELSE /\ dst_jdk_dir' = {}
             /\ dst_src_zip' = dst_src_zip
             /\ pc' = "finally"
             /\ abort' = Failure("error writing src.zip")
    /\ UNCHANGED registry
    /\ UNCHANGED <<given, resolved, staged, command, tools, build_dir, dst_static>>

\* Lines 788-792: lib/src.zip of the new image; ZipFile or writestr may raise.
WriteSrcZip ==
    /\ pc = "post"
    /\ \E written \in BOOLEAN :
        IF written
        THEN /\ dst_jdk_dir' = dst_jdk_dir \cup {"lib/src.zip"}
             /\ dst_src_zip' = SortedItems(dst_src_zip_contents)
             /\ pc' = "static"
             /\ abort' = abort
        ELSE /\ UNCHANGED <<dst_jdk_dir, dst_src_zip>>
             /\ pc' = "finally"
             /\ abort' = Failure("error writing src.zip")
    /\ UNCHANGED registry
    /\ UNCHANGED <<given, resolved, staged, command, tools, build_dir, dst_static>>

\* jdk.home and dst_jdk_dir, as lists of path components below the root.
JdkHome == <<"jdk">>
DstJdkDir == <<"dst">>

\* The directories of a file system that holds the files fs and the directories ds.
Directories(fs, ds) ==
    (ds \cup UNION {{SubSeq(f, 1, n) : n \in 0..Len(f)} : f \in (DOMAIN fs) \cup ds})
        \ (DOMAIN fs)

\* Where the operating system gets to when it follows the components rest from
\* the directory cur: ".." leads to the parent, and a component can only be
\* followed from an existing directory.
RECURSIVE Resolve(_, _, _)
Resolve(cur, rest, dirs) ==
    IF rest = <<>> THEN [ok |-> TRUE, at |-> cur]
    ELSE IF cur \notin dirs THEN [ok |-> FALSE, at |-> cur]
    ELSE IF Head(rest) = ".."
         THEN Resolve(SubSeq(cur, 1, Len(cur) - 1), Tail(rest), dirs)
         ELSE IF Head(rest) = "." THEN Resolve(cur, Tail(rest), dirs)
         ELSE Resolve(Append(cur, Head(rest)), Tail(rest), dirs)

\* os.path.exists(path)
exists(path, fs, dirs) ==
    LET r == Resolve(<<>>, path, dirs)
    IN r.ok /\ (r.at \in DOMAIN fs \/ r.at \in dirs)

\* mx.sha1OfFile(path), of a file that exists
sha1OfFile(path, fs, dirs) == fs[Resolve(<<>>, path, dirs).at]

\* The number of leading components two paths share.
RECURSIVE CommonPrefix(_, _)
CommonPrefix(a, b) ==
    IF a = <<>> \/ b = <<>> \/ Head(a) # Head(b) THEN 0
    ELSE 1 + CommonPrefix(Tail(a), Tail(b))

\* relpath that takes the path of root below the source directory.
relpath_FromSource(path, start) ==
    LET below == SubSeq(path, Len(JdkHome \o <<"lib", "static">>) + 1, Len(path))
    IN IF below = <<>> THEN <<".">> ELSE below

\* os.path.relpath(path, start): up from start to the common ancestor, then down.
relpath(path, start) ==
    LET c == CommonPrefix(path, start)
        rel == [i \in 1..(Len(start) - c) |-> ".."] \o SubSeq(path, c + 1, Len(path))
    IN IF rel = <<>> THEN <<".">> ELSE rel

\* Lines 805-817 for the file of the source tree at path f below lib_directory:
\* TRUE when neither mx.abort is reached.
LibraryVerified(f, fs, dirs) ==
    LET lib_directory == JdkHome \o <<"lib", "static">>
        dst_lib_directory == DstJdkDir \o <<"lib", "static">>
        root == lib_directory \o SubSeq(f, 1, Len(f) - 1)
        lib == f[Len(f)]
        relative_root == relpath(root, dst_lib_directory)
        src_lib_path == Append(root, lib)
        dst_lib_path == Append(dst_lib_directory \o relative_root, lib)
    IN /\ exists(dst_lib_path, fs, dirs)
       /\ sha1OfFile(src_lib_path, fs, dirs) = sha1OfFile(dst_lib_path, fs, dirs)

\* The files on disk when the handler of line 800 runs: those of the source tree
\* and those that copytree has put below dst_jdk_dir/lib/static.
FilesOnDisk(src, copied) ==
    [p \in {JdkHome \o <<"lib", "static">> \o f : f \in DOMAIN src}
              \cup {DstJdkDir \o <<"lib", "static">> \o f : f \in DOMAIN copied} |->
        IF SubSeq(p, 1, Len(JdkHome)) = JdkHome
        THEN src[SubSeq(p, Len(JdkHome) + 3, Len(p))]
        ELSE copied[SubSeq(p, Len(DstJdkDir) + 3, Len(p))]]

\* What mx.copytree can leave below the destination: all files when it raises
\* nothing; with shutil.Error, any of the files, each intact or with other content;
\* nothing, not even the directory, when it fails in another way.
CopyResults(src, raised) ==
    IF raised = "none" THEN {src}
    ELSE IF raised = "shutil.Error"
    THEN UNION {[d -> {"sha1 of other content"} \cup {src[f] : f \in d}] :
                  d \in SUBSET DOMAIN src}
    ELSE {<<>>}

\* Lines 794-830: the static libraries of the source JDK.
CopyStaticLibs ==
    /\ pc = "static"
    /\ pc' = "finally"
    /\ IF lib_static.exists
       THEN \E raised \in {"none", "shutil.Error", "OSError"} :
            \E copied \in CopyResults(lib_static.files, raised) :
              LET fs == FilesOnDisk(lib_static.files, copied)
                  dirs == Directories(fs, {JdkHome \o <<"lib", "static">>,
                                           DstJdkDir \o <<"lib", "static">>})
              IN /\ dst_static' = [raised |-> raised, exists |-> raised # "OSError",
                                    files |-> copied]
                 /\ abort' =
                        IF raised = "OSError"
                        THEN Failure("copytree failed")
                        ELSE IF raised = "shutil.Error"
                                /\ \E f \in DOMAIN lib_static.files :
                                      ~LibraryVerified(f, fs, dirs)
                        THEN Failure("error copying static libraries")
                        ELSE abort
                 /\ dst_jdk_dir' = IF raised = "OSError" THEN dst_jdk_dir
                                   ELSE dst_jdk_dir \cup {"lib/static"}
       ELSE \E copied \in BOOLEAN :
              /\ abort' = IF copied THEN abort ELSE Failure("copy2 failed")
              /\ dst_jdk_dir' = IF copied THEN dst_jdk_dir \cup {"static libraries in lib"}
                                ELSE dst_jdk_dir
              /\ dst_static' = dst_static
    /\ UNCHANGED registry
    /\ UNCHANGED <<given, resolved, staged, command, tools, build_dir, dst_src_zip>>

\* Cleanup that runs on the success path only (no finally clause).
Cleanup_OnSuccessOnly ==
    /\ pc = "finally"
    /\ build_dir' = IF ~verbose /\ abort = NoAbort THEN FALSE ELSE build_dir
    /\ pc' = IF abort = NoAbort THEN "cds" ELSE "aborted"
    /\ UNCHANGED registry
    /\ UNCHANGED <<given, resolved, staged, command, tools, dst_jdk_dir, dst_src_zip,
                   dst_static, abort>>

\* Lines 831-835: the finally clause; an abort raised in the try block goes on.
Cleanup ==
    /\ pc = "finally"
    /\ build_dir' = IF ~verbose THEN FALSE ELSE build_dir
    /\ pc' = IF abort = NoAbort THEN "cds" ELSE "aborted"
    /\ UNCHANGED registry
    /\ UNCHANGED <<given, resolved, staged, command, tools, dst_jdk_dir, dst_src_zip,
                   dst_static, abort>>

\* Lines 837-842: java -Xshare:dump of the new image.
DumpCds ==
    /\ pc = "cds"
    /\ tools' = Append(tools, "java -Xshare:dump")
    /\ \E ok \in BOOLEAN :
        IF ok
        THEN /\ pc' = "done"
             /\ dst_jdk_dir' = dst_jdk_dir \cup {"CDS archive"}
             /\ abort' = abort
        ELSE /\ pc' = "aborted"
             /\ dst_jdk_dir' = dst_jdk_dir
             /\ abort' = Failure("error generating CDS shared archive")
    /\ UNCHANGED registry
    /\ UNCHANGED <<given, resolved, staged, command, build_dir, dst_src_zip, dst_static>>

Next ==
    \/ CheckJdk
    \/ JmodDescribe
    \/ ResolveTargets
    \/ SynthJavac
    \/ SynthJmod
    \/ PatchJavaBase
    \/ LinkImage
    \/ WriteSrcZip
    \/ CopyStaticLibs
    \/ Cleanup
    \/ DumpCds

Spec == Init /\ [][Next]_vars

LinkSpec == LinkInit /\ [][Next]_vars

RunSpec == RunInit /\ [][Next]_vars

SrcSpec == SrcInit /\ [][Next]_vars

StaticSpec == StaticInit /\ [][Next]_vars

(* ------------------------------------------------- the component registry *)

\* Most components the suites declare in one run.
MaxComponents == 4
\* Most components declared in a run that varies every constructor argument.
MaxDeclared == 1

\* What a link call works on, in a run where jlink_new_jdk is never called.
link == <<pc, given, resolved, staged, command, tools, disk, abort>>

\* The arguments of one GraalVmComponent(...) call, the ones lines 256-302 read
\* to set name, short_name, priority and stability. priority is {} for None and
\* {p} for the integer p; supported is "None", "True" or "False"; stability is
\* "None" or the string given.
Arguments(name, short_name, priority, supported, early_adopter, stability) ==
    [name |-> name, short_name |-> short_name, priority |-> priority,
     supported |-> supported, early_adopter |-> early_adopter, stability |-> stability]

\* priority or 0 (line 278): None and 0 are falsy.
priority_or_0(priority) ==
    IF priority = {} \/ priority = {0} THEN 0 ELSE CHOOSE p \in priority : TRUE

\* Line 287-288: a deprecated attribute is given, and stability with it.
DeprecatedWithStability(a) ==
    (a.supported # "None" \/ a.early_adopter) /\ a.stability # "None"

\* Stability with the if of line 292 inside the if of line 287: the deprecated
\* attributes set stability when one of them is given, else it stays as given.
Stability_AsGiven(a) ==
    IF a.supported = "None" /\ ~a.early_adopter THEN a.stability
    ELSE IF a.supported = "True"
    THEN IF a.early_adopter THEN "earlyadopter" ELSE "supported"
    ELSE IF a.early_adopter THEN "experimental-earlyadopter" ELSE "experimental"

\* Lines 292-302: the value assigned to self.stability. The if of line 292 is at
\* the level of the if of line 287, so one of its four assignments to stability
\* is made in every call before line 302 reads the variable.
Stability(a) ==
    IF a.supported = "True"
    THEN IF a.early_adopter THEN "earlyadopter" ELSE "supported"
    ELSE IF a.early_adopter THEN "experimental-earlyadopter" ELSE "experimental"

\* The object that __init__ leaves (the fields the registry and the claims read).
GraalVmComponent(a) ==
    [name |-> a.name, short_name |-> a.short_name,
     priority |-> priority_or_0(a.priority), stability |-> Stability(a)]

\* Lines 256-322: the next declared component is constructed, unless line 289
\* aborts. (The list arguments that the assertions of lines 306-322 test are not
\* modelled.)
Construct ==
    /\ exception = "none"
    /\ Len(components) = Len(registered)
    /\ Len(components) < Len(declared)
    /\ LET a == declared[Len(components) + 1]
       IN IF DeprecatedWithStability(a)
          THEN /\ exception' = "mx.abort"
               /\ components' = components
          ELSE /\ exception' = exception
               /\ components' = Append(components, GraalVmComponent(a))
    /\ UNCHANGED <<declared, registered, _graalvm_components,
                   _graalvm_components_by_name, found>>
    /\ UNCHANGED link

\* ',' in s
HasComma(s) == \E i \in 1..Len(s) : s[i] = Comma

\* del d[k], k being a key of d
Del(d, k) == [x \in DOMAIN d \ {k} |-> d[x]]

\* The two tables and the exception that a register_graalvm_component call leaves.
Registered(by_short_name, by_name, exc) ==
    [_graalvm_components |-> by_short_name, _graalvm_components_by_name |-> by_name,
     exception |-> exc]

\* register_graalvm_component that keeps the component registered first under a
\* short name, whatever the priorities.
register_graalvm_component_KeepsFirst(c, objs, by_short_name, by_name) ==
    LET component == objs[c]
    IN IF component.short_name \in DOMAIN by_short_name
       THEN Registered(by_short_name, by_name, "none")
       ELSE Registered(Put(by_short_name, component.short_name, c),
                       Put(by_name, component.name, c), "none")

\* Lines 406-422, for the object c of the heap objs and the tables as they are.
\* Line 414 is executed before line 415 can raise KeyError.
register_graalvm_component(c, objs, by_short_name, by_name) ==
    LET component == objs[c]
    IN IF HasComma(component.short_name) \/ HasComma(component.name)
       THEN Registered(by_short_name, by_name, "AssertionError")
       ELSE IF component.short_name \in DOMAIN by_short_name
       THEN LET _prev == objs[by_short_name[component.short_name]]
            IN IF _prev.priority = component.priority
               THEN Registered(by_short_name, by_name, "mx.abort")
               ELSE IF _prev.priority < component.priority
               THEN IF _prev.name \in DOMAIN by_name
                    THEN Registered(Put(by_short_name, component.short_name, c),
                                    Put(Del(by_name, _prev.name), component.name, c),
                                    "none")
                    ELSE Registered(Put(by_short_name, component.short_name, c),
                                    by_name, "KeyError")
               ELSE Registered(by_short_name, by_name, "none")
       ELSE Registered(Put(by_short_name, component.short_name, c),
                       Put(by_name, component.name, c), "none")

\* register_graalvm_component(component) for the object just constructed.
Register ==
    /\ exception = "none"
    /\ Len(components) > Len(registered)
    /\ LET c == Len(components)
           after == register_graalvm_component(c, components, _graalvm_components,
                                               _graalvm_components_by_name)
       IN /\ _graalvm_components' = after._graalvm_components
          /\ _graalvm_components_by_name' = after._graalvm_components_by_name
          /\ exception' = after.exception
          /\ registered' = IF after.exception = "none" THEN Append(registered, c)
                           ELSE registered
    /\ UNCHANGED <<declared, components, found>>
    /\ UNCHANGED link

\* Lines 429-437: what graalvm_component_by_name(name, fatalIfMissing) gives.
graalvm_component_by_name(name, fatalIfMissing, by_short_name, by_name) ==
    IF name \in DOMAIN by_short_name
    THEN [outcome |-> "returned", component |-> by_short_name[name]]
    ELSE IF name \in DOMAIN by_name
    THEN [outcome |-> "returned", component |-> by_name[name]]
    ELSE IF fatalIfMissing
    THEN [outcome |-> "Unknown component", component |-> 0]
    ELSE [outcome |-> "None", component |-> 0]

\* The names that are looked up.
LookupNames == {NameA, NameB, NameC}

\* A graalvm_component_by_name call, once the suites have declared their components.
Lookup ==
    /\ exception = "none"
    /\ Len(registered) = Len(declared)
    /\ \E name \in LookupNames, fatalIfMissing \in BOOLEAN :
          LET r == graalvm_component_by_name(name, fatalIfMissing, _graalvm_components,
                                             _graalvm_components_by_name)
          IN found' = [name |-> name, fatalIfMissing |-> fatalIfMissing,
                       outcome |-> r.outcome, component |-> r.component]
    /\ UNCHANGED <<declared, components, registered, _graalvm_components,
                   _graalvm_components_by_name, exception>>
    /\ UNCHANGED link

RegistryNext ==
    \/ Construct
    \/ Register
    \/ Lookup

\* A run that loads suites and never calls jlink_new_jdk.
NoLinkCall ==
    /\ Entry
    /\ jdk_names = {JavaBase}
    /\ module_dists = <<>>
    /\ ignore_module_names = {}
    /\ missing_export_target_action = "create"
    /\ verbose = FALSE
    /\ RecentJdkDefaults
    /\ StockJavaBase
    /\ StockSources
    /\ NoStaticDir

\* Components declared with stability left to its default: short names "a" and
\* "b", names "b" (also a short name) and "c", priority None or 1.
PlainComponents ==
    {Arguments(n, s, p, "None", FALSE, "None") :
        n \in {NameB, NameC}, s \in {NameA, NameB}, p \in {{}, {1}}}

\* Runs that differ in the components declared and in their order.
RegistryInit ==
    /\ NoLinkCall
    /\ NothingLoaded
    /\ declared \in SeqUpTo(PlainComponents, MaxComponents)

\* Components declared with any combination of priority, supported, early_adopter
\* and stability, and with names that hold a comma or not.
AnyComponents ==
    {Arguments(n, s, p, sup, ea, st) :
        n \in {NameC, NameACommaB}, s \in {NameA, NameACommaB}, p \in {{}, {0}, {2}},
        sup \in {"None", "True", "False"}, ea \in BOOLEAN,
        st \in {"None", "supported", "experimental"}}

\* Runs that differ in the arguments of the constructor.
ComponentInit ==
    /\ NoLinkCall
    /\ NothingLoaded
    /\ declared \in SeqUpTo(AnyComponents, MaxDeclared)

RegistrySpec == RegistryInit /\ [][RegistryNext]_vars

ComponentSpec == ComponentInit /\ [][RegistryNext]_vars

(* ------------------------------------------- vocabulary of the properties *)

\* Every qualified-export target of every supplied module.
SuppliedTargets ==
    UNION {{module_dists[i].exports[j] : j \in 1..Len(module_dists[i].exports)} :
              i \in 1..Len(module_dists)}

SuppliedModuleNames == {module_dists[i].name : i \in 1..Len(module_dists)}

\* Source-runtime modules without jdk.aot, plus supplied modules.
InitialUniverse == (jdk_names \ {JdkAot}) \cup SuppliedModuleNames

\* Targets that are not in the initial universe, not ignored and not hash-recorded.
Pending ==
    {t \in SuppliedTargets :
        t \notin InitialUniverse /\ t \notin ignore_module_names /\ t \notin hashes}

SyntheticNames == {synthetic_modules[i].name : i \in 1..Len(synthetic_modules)}

\* The call has got past the policy decision of lines 619-622 (hashes are read).
PastResolve ==
    /\ pc \notin {"start", "describe", "resolve"}
    /\ abort.kind \notin {"cannot derive", "non-zero exit", "bad hashes line"}

\* Resolution is complete and the call goes on: all_module_names is final.
UniverseFinal == pc \in {"patch", "link", "post", "static", "cds", "done"}

\* The jlink run of line 786 has been started.
JlinkInvoked == \E i \in 1..Len(tools) : tools[i] = "jlink"

\* A target is accounted for: in the universe, ignored or hash-recorded.
Accounted(t) ==
    t \in all_module_names \/ t \in ignore_module_names \/ t \in hashes

(* ------------------------------------------------------------------- C1 *)

\* C1 as stated: under every policy (create, error, None), once jlink is invoked
\* every qualified-export target of every supplied module is in the final
\* universe, ignored or hash-recorded. Policy None breaks it.
C1_AnyPolicy ==
    JlinkInvoked => \A t \in SuppliedTargets : Accounted(t)

\* C1 as amended: under the policies create and error, once jlink is invoked every
\* qualified-export target of every supplied module is in the final universe,
\* ignored or hash-recorded (create synthesizes the others, error aborts); only
\* policy None lets the call reach jlink with such a target left out.
C1_CreateOrError ==
    (JlinkInvoked /\ missing_export_target_action # "None")
        => \A t \in SuppliedTargets : Accounted(t)

\* jlink runs under policy create with a pending target that was synthesized.
C1_Witness ==
    /\ JlinkInvoked
    /\ missing_export_target_action = "create"
    /\ Pending # {}
    /\ Pending \subseteq SyntheticNames

(* ------------------------------------------------------------------- C2 *)

\* C2 as stated: with policy create the final universe holds every
\* qualified-export target that has no hash recorded in java.base. A target of
\* the ignore list breaks it.
C2_UniverseOrHash ==
    (missing_export_target_action = "create" /\ UniverseFinal)
        => \A t \in SuppliedTargets : t \in all_module_names \/ t \in hashes

\* C2 as amended: with policy create, in the final universe every
\* qualified-export target of every supplied module is a member of the universe
\* (a source-runtime, supplied or synthetic module), or has a hash recorded in
\* java.base, or is in the ignore list.
C2_UniverseHashOrIgnored ==
    (missing_export_target_action = "create" /\ UniverseFinal)
        => /\ all_module_names = InitialUniverse \cup SyntheticNames
           /\ \A t \in SuppliedTargets :
                 \/ t \in all_module_names
                 \/ t \in hashes
                 \/ t \in ignore_module_names

\* Policy create resolved a call that has a synthesized target and an ignored one.
C2_Witness ==
    /\ missing_export_target_action = "create"
    /\ UniverseFinal
    /\ Pending # {}
    /\ \E t \in SuppliedTargets :
          t \in ignore_module_names /\ t \notin all_module_names /\ t \notin hashes

(* ------------------------------------------------------------------- C3 *)

\* C3: a synthetic module is only ever made for a pending target and at most one
\* per name; when policy create has finished, the names of the synthetic modules
\* are exactly the pending targets, one module each.
C3_SyntheticArePending ==
    /\ \A i \in 1..Len(synthetic_modules) : synthetic_modules[i].name \in Pending
    /\ \A i, j \in 1..Len(synthetic_modules) :
          i # j => synthetic_modules[i].name # synthetic_modules[j].name
    /\ (missing_export_target_action = "create" /\ UniverseFinal)
          => /\ SyntheticNames = Pending
             /\ Len(synthetic_modules) = Cardinality(Pending)

\* Policy create has finished for a pending target that both supplied modules
\* list, next to a target that needs no module (present, ignored or hash-recorded).
C3_Witness ==
    /\ missing_export_target_action = "create"
    /\ UniverseFinal
    /\ Len(module_dists) = 2
    /\ \E t \in Pending : \A i \in 1..Len(module_dists) :
          \E j \in 1..Len(module_dists[i].exports) : module_dists[i].exports[j] = t
    /\ SuppliedTargets \ Pending # {}

(* ------------------------------------------------------------------- C4 *)

\* The supplied modules that list t as a qualified-export target.
ExportersTo(t) ==
    {module_dists[i].name : i \in
        {k \in 1..Len(module_dists) :
            \E j \in 1..Len(module_dists[k].exports) : module_dists[k].exports[j] = t}}

\* C4: every synthetic module has empty exports, uses and provides, and requires
\* exactly the supplied modules that have an export qualified to its name.
C4_SyntheticShape ==
    \A i \in 1..Len(synthetic_modules) :
        LET m == synthetic_modules[i]
        IN /\ m.exports = <<>>
           /\ m.uses = {}
           /\ m.provides = {}
           /\ m.requires = ExportersTo(m.name)

\* A completed call made a synthetic module that both supplied modules export to,
\* the supplied modules being passed in the order b, a.
C4_Witness ==
    /\ pc = "done"
    /\ Len(module_dists) = 2
    /\ \E i \in 1..Len(synthetic_modules) :
          /\ synthetic_modules[i].requires = {NameA, NameB}
          /\ module_dists[2].name = NameA

(* ------------------------------------------------------------------- C5 *)

\* C5: under policy error, once the call is past the policy decision with a
\* pending target, it has aborted, the abort text is the pending targets, each
\* once, joined by '.', no synthetic module exists and jlink was not invoked.
C5_ErrorAborts ==
    (missing_export_target_action = "error" /\ PastResolve /\ Pending # {})
        => /\ pc \in {"finally", "aborted"}
           /\ abort.kind = "unresolved targets"
           /\ \E order \in Orders(Pending) : abort.text = join(Dot, order)
           /\ synthetic_modules = <<>>
           /\ ~JlinkInvoked

\* Policy error has aborted a call with two pending targets.
C5_Witness ==
    /\ missing_export_target_action = "error"
    /\ pc = "aborted"
    /\ abort.kind = "unresolved targets"
    /\ Cardinality(Pending) = 2

(* ------------------------------------------------------------------- C6 *)

\* C6 as stated: when the call aborts for an unresolvable qualified-export
\* target, no external process has been run before the abort.
C6_NoToolBeforeAbort ==
    abort.kind = "unresolved targets" => tools = <<>>

\* C6 as amended: when the call aborts for an unresolvable qualified-export
\* target under policy error, the only external process run before the abort is
\* the jmod describe of java.base that reads the recorded hashes; javac, jmod
\* create, jlink and java have not been run.
C6_OnlyDescribeBeforeAbort ==
    abort.kind = "unresolved targets" => tools = <<"jmod describe">>

\* The call has aborted for an unresolvable target.
C6_Witness ==
    /\ abort.kind = "unresolved targets"
    /\ pc = "aborted"
    /\ missing_export_target_action = "error"
    /\ Len(tools) = 1

(* ------------------------------------------------------------------- C7 *)

\* C7: under policy None the pending targets raise no error and get no synthetic
\* module, and the final universe is the initial universe, without any of them.
C7_NoneLeavesUniverse ==
    (missing_export_target_action = "None" /\ PastResolve)
        => /\ abort.kind \notin {"unresolved targets", "javac failed", "jmod create failed"}
           /\ synthetic_modules = <<>>
           /\ all_module_names = InitialUniverse
           /\ Pending \cap all_module_names = {}
           /\ \A i \in 1..Len(tools) : tools[i] \notin {"javac", "jmod create"}

\* A call under policy None with a pending target has completed.
C7_Witness ==
    /\ missing_export_target_action = "None"
    /\ pc = "done"
    /\ Pending # {}

(* ------------------------------------------------------------------- C8 *)

\* C8: when no target is pending, every policy leaves the universe as the initial
\* universe, makes no synthetic module and raises no error of its own.
C8_NothingPending ==
    (PastResolve /\ Pending = {})
        => /\ target_requires = <<>>
           /\ \A p \in Policies : PolicyOutcome(target_requires, p) = "skip"
           /\ synthetic_modules = <<>>
           /\ all_module_names = InitialUniverse
           /\ modules = module_dists
           /\ abort.kind \notin {"unresolved targets", "javac failed", "jmod create failed"}

\* A call under policy error whose targets are all present, ignored or
\* hash-recorded has completed.
C8_Witness ==
    /\ missing_export_target_action = "error"
    /\ pc = "done"
    /\ SuppliedTargets # {}
    /\ Pending = {}

(* ------------------------------------------------------------ C9, C10 *)

\* The fields of a string cut at every ',' (str.split(',')).
RECURSIVE SplitAcc(_, _)
SplitAcc(s, field) ==
    IF s = <<>> THEN <<field>>
    ELSE IF Head(s) = Comma THEN <<field>> \o SplitAcc(Tail(s), <<>>)
    ELSE SplitAcc(Tail(s), Append(field, Head(s)))

\* The names a comma-separated list names; the empty string names none.
NamesListed(s) == IF s = <<>> THEN <<>> ELSE SplitAcc(s, <<>>)

Range(f) == {f[i] : i \in DOMAIN f}

StrictlyAscending(names) ==
    \A i \in 1..(Len(names) - 1) : StrLess(names[i], names[i + 1])

\* The values of the --add-modules options of the jlink command line.
IsAddModules(arg) == arg.opt = "--add-modules"
AddModulesValues ==
    LET args == SelectSeq(jlink, IsAddModules)
    IN [i \in 1..Len(args) |-> args[i].val]

\* Source-runtime modules (without jdk.aot), supplied modules, synthetic modules.
FinalUniverse == InitialUniverse \cup SyntheticNames

Reorderings(seq) ==
    {[i \in 1..Len(seq) |-> seq[o[i]]] : o \in Orders(1..Len(seq))}

\* The supplied modules in any order, each with its exports visited in any order.
Rearrangements(ds) ==
    UNION {
        {[i \in 1..Len(p) |-> [p[i] EXCEPT !.exports = e[i]]] :
            e \in {x \in [1..Len(p) -> UNION {Reorderings(p[k].exports) : k \in 1..Len(p)}] :
                      \A i \in 1..Len(p) : x[i] \in Reorderings(p[i].exports)}}
        : p \in Reorderings(ds)}

\* The --add-modules value the code computes for the supplied modules ds, the
\* other inputs being those of the call.
AddModulesFor(ds) ==
    LET all0 == AllModuleNames(jdk_names, ds)
        tr == TargetRequires(ds, all0, ignore_module_names, hashes)
        synth == [i \in 1..Len(tr) |-> SyntheticDescriptor(tr[i].name, tr[i].requires)]
        ms == IF PolicyOutcome(tr, missing_export_target_action) = "create"
              THEN ds \o synth ELSE ds
    IN AddModules(root_module_names, AllModuleNames(jdk_names, ms))

\* C9: without a root-module list, --add-modules names exactly the final universe,
\* in strictly ascending order (so each name once), and its value is the same for
\* every order of the supplied modules and of their exports (compared where the
\* jlink run has just returned; the command line does not change afterwards).
C9_DefaultRootsSorted ==
    (jlink # <<>> /\ ~root_module_names.given)
        => /\ Len(AddModulesValues) = 1
           /\ Range(NamesListed(AddModulesValues[1])) = FinalUniverse
           /\ StrictlyAscending(NamesListed(AddModulesValues[1]))
           /\ pc = "post" =>
                 \A ds \in Rearrangements(module_dists) :
                     AddModulesFor(ds) = AddModulesValues[1]

\* jlink was run without a root list for two supplied modules with two targets
\* each, one of them synthesized, next to source-runtime modules.
C9_Witness ==
    /\ jlink # <<>>
    /\ ~root_module_names.given
    /\ Len(module_dists) = 2
    /\ \A i \in 1..2 : Len(module_dists[i].exports) = 2
                          /\ module_dists[i].exports[1] # module_dists[i].exports[2]
    /\ synthetic_modules # <<>>
    /\ NameB \in jdk_names
    /\ pc = "done"

\* C10: with an explicit root list, a name outside the final universe aborts the
\* call before jlink, the abort naming every such name once and the universe in
\* ascending order; otherwise jlink gets the caller's list as it was passed.
C10_ExplicitRoots ==
    root_module_names.given
        => LET absent == Range(root_module_names.names) \ FinalUniverse
           IN IF absent # {}
              THEN /\ abort.kind = "invalid modules"
                   /\ pc \in {"finally", "aborted"}
                   /\ Range(NamesListed(abort.text)) = absent
                   /\ Len(NamesListed(abort.text)) = Cardinality(absent)
                   /\ Range(NamesListed(abort.available)) = FinalUniverse
                   /\ StrictlyAscending(NamesListed(abort.available))
                   /\ jlink = <<>>
                   /\ ~JlinkInvoked
              ELSE /\ abort.kind # "invalid modules"
                   /\ JlinkInvoked
                   /\ Len(AddModulesValues) = 1
                   /\ NamesListed(AddModulesValues[1]) = root_module_names.names

\* The call aborted for a root list of two names of which one is a synthetic
\* module and the other is in no module set.
C10_Witness ==
    /\ abort.kind = "invalid modules"
    /\ pc = "aborted"
    /\ Len(root_module_names.names) = 2
    /\ \E i \in 1..2 : root_module_names.names[i] \in SyntheticNames
    /\ \E i \in 1..2 : root_module_names.names[i] \notin FinalUniverse

(* ------------------------------------------------------------------ C11 *)

IsModulePath(arg) == arg.opt = "--module-path"

\* The archive of a module as an entry of the module path.
JmodOf(m) == [kind |-> "jmod", of |-> m.name]

\* C11: every jlink invocation has one --module-path; it lists the archives of the
\* supplied modules in their order, then those of the synthetic modules, then the
\* patched java.base archive of the scratch directory, then the jmods directory of
\* the source runtime, and nothing else; with no supplied and no synthetic module
\* it is just the last two.
C11_ModulePathOrder ==
    JlinkInvoked =>
        LET paths == SelectSeq(jlink, IsModulePath)
            k == Len(module_dists)
            s == Len(synthetic_modules)
        IN /\ Len(paths) = 1
           /\ Len(paths[1].val) = k + s + 2
           /\ \A i \in 1..k : paths[1].val[i] = JmodOf(module_dists[i])
           /\ \A j \in 1..s : paths[1].val[k + j] = JmodOf(synthetic_modules[j])
           /\ paths[1].val[k + s + 1] = [kind |-> "patched java.base", of |-> JavaBase]
           /\ paths[1].val[k + s + 2] = [kind |-> "jmods dir", of |-> <<>>]

\* jlink runs with two supplied modules and a synthesized one on the module path.
C11_Witness ==
    /\ JlinkInvoked
    /\ Len(module_dists) = 2
    /\ synthetic_modules # <<>>
    /\ Len(SelectSeq(jlink, IsModulePath)[1].val) >= 5

(* ------------------------------------------------------------------ C12 *)

\* How often a tool has been run.
Runs(tool) == Cardinality({i \in 1..Len(tools) : tools[i] = tool})

\* The abort that the non-zero exit of each external tool raises.
FailureOf ==
    [t \in {"jmod describe", "javac", "jmod create", "jlink", "java -Xshare:dump"} |->
        CASE t = "jmod describe" -> "non-zero exit"
          [] t = "javac" -> "javac failed"
          [] t = "jmod create" -> "jmod create failed"
          [] t = "jlink" -> "jlink failed"
          [] t = "java -Xshare:dump" -> "error generating CDS shared archive"]

\* C12: when an external tool (jmod describe, javac, jmod create, jlink, the new
\* runtime's java -Xshare:dump) exits non-zero the call aborts: the failed run is
\* the last process the call ever starts, no pipeline step follows it (after a
\* failed jlink the destination holds no src.zip, no static library and no CDS
\* archive, and before jlink fails no jlink command exists), and no tool is run a
\* second time for the same job: jmod describe, jlink and the CDS dump run at most
\* once, javac and jmod create at most once per synthetic module.
C12_ToolFailureAborts ==
    /\ \A t \in DOMAIN FailureOf :
          abort.kind = FailureOf[t] =>
              /\ pc \in {"finally", "aborted"}
              /\ tools # <<>> /\ tools[Len(tools)] = t
    /\ abort.kind \in {"non-zero exit", "javac failed", "jmod create failed"} => jlink = <<>>
    /\ abort.kind \in {"non-zero exit", "javac failed", "jmod create failed", "jlink failed"}
          => dst_jdk_dir = {} /\ Runs("java -Xshare:dump") = 0
    /\ Runs("jmod describe") <= 1 /\ Runs("jlink") <= 1 /\ Runs("java -Xshare:dump") <= 1
    /\ Runs("javac") = Len(synthetic_modules)
    /\ Runs("jmod create") <= Runs("javac")

\* The call has ended on a failed jlink run that followed two successful tools.
C12_Witness ==
    /\ abort.kind = "jlink failed"
    /\ pc = "aborted"
    /\ Runs("javac") >= 1
    /\ Runs("jmod create") >= 1

(* ------------------------------------------------------------------ C13 *)

\* The options of the jlink command named o.
Options(o) == SelectSeq(jlink, LAMBDA arg : arg.opt = o)

\* Some --add-options argument of the jlink command carries the VM flag f.
AddsVmFlag(f) ==
    \E i \in 1..Len(jlink) :
        /\ jlink[i].opt = "--add-options"
        /\ \E k \in 1..Len(jlink[i].val) : jlink[i].val[k] = f

\* C13: in the jlink command that is run, an --add-options argument and a
\* vendor-info option appear only if jdk_has_new_jlink_options is positive;
\* -XX:ThreadPriorityPolicy=1 only if, in addition,
\* jdk_omits_warning_for_jlink_set_ThreadPriorityPolicy is positive;
\* -XX:+EnableJVMCIProduct only if, in addition, jdk_supports_enablejvmciproduct is
\* positive; -J-XX:-EnableJVMCI only if jdk_enables_jvmci_by_default is positive.
\* A probe that answers no never aborts the link: the call aborts over a probe
\* only when a probe's own process exits non-zero.
C13_OptionsFollowProbes ==
    /\ JlinkInvoked =>
          /\ Options("--add-options") # <<>> => probe["has_new_jlink_options"] = "yes"
          /\ Options("--vendor-version") # <<>> => probe["has_new_jlink_options"] = "yes"
          /\ AddsVmFlag("-XX:ThreadPriorityPolicy=1") =>
                /\ probe["has_new_jlink_options"] = "yes"
                /\ probe["omits_warning_for_jlink_set_ThreadPriorityPolicy"] = "yes"
          /\ AddsVmFlag("-XX:+EnableJVMCIProduct") =>
                /\ probe["has_new_jlink_options"] = "yes"
                /\ probe["supports_enablejvmciproduct"] = "yes"
          /\ Options("-J-XX:-EnableJVMCI") # <<>> =>
                probe["enables_jvmci_by_default"] = "yes"
    /\ abort.kind = "probe failed" => \E p \in ProbeNames : probe[p] = "exit"

\* jlink has run, with the vendor option and an --add-options argument, on a JDK
\* that has the new jlink options but fails two of the other probes.
C13_Witness ==
    /\ JlinkInvoked
    /\ probe["has_new_jlink_options"] = "yes"
    /\ probe["omits_warning_for_jlink_set_ThreadPriorityPolicy"] = "no"
    /\ probe["enables_jvmci_by_default"] = "no"
    /\ probe["supports_enablejvmciproduct"] = "yes"
    /\ Options("--vendor-version") # <<>>
    /\ AddsVmFlag("-XX:+EnableJVMCIProduct")
    /\ ~AddsVmFlag("-XX:ThreadPriorityPolicy=1")

(* ------------------------------------------------------------------ C14 *)

\* The patch of lines 658-705 has written the new java.base archive.
Patched == policy_result \in {"modified", "unmodified"}

\* The entries of the source java.base archive that are not directories.
SourceFiles ==
    SelectSeq(java_base_jmod.entries, LAMBDA i : i.filename[Len(i.filename)] # Slash)

\* The content of the source default.policy holds the marker of both blocks.
HasBothMarkers(member) ==
    /\ \E k \in 1..Len(member) : member[k] = EnterpriseBlock[1]
    /\ \E k \in 1..Len(member) : member[k] = TruffleBlock[1]

\* C14: the security-policy patch is idempotent. Whatever default.policy held (none,
\* one or both grant markers), patching the archive that a patch has written gives
\* the same entries with the same content and the result unmodified; and a source
\* archive whose policy holds both markers is reported unmodified, its file entries
\* written with the content they had.
C14_PatchIdempotent ==
    Patched =>
        /\ PatchArchive(patched_java_base).result = "unmodified"
        /\ PatchArchive(patched_java_base).entries = patched_java_base
        /\ (\A k \in 1..Len(SourceFiles) :
                SourceFiles[k].filename = PolicyFile => HasBothMarkers(SourceFiles[k].member))
              => policy_result = "unmodified" /\ patched_java_base = SourceFiles

\* A policy with one of the two markers has been patched, next to another entry.
C14_Witness ==
    /\ policy_result = "modified"
    /\ Len(patched_java_base) = 2
    /\ \E k \in 1..Len(SourceFiles) :
          /\ SourceFiles[k].filename = PolicyFile
          /\ ~HasBothMarkers(SourceFiles[k].member)
          /\ \E n \in 1..Len(SourceFiles[k].member) :
                SourceFiles[k].member[n] = TruffleBlock[1]

(* ------------------------------------------------------------------ C15 *)

\* The source java.base archive has an entry lib/security/default.policy.
HasPolicyEntry ==
    \E k \in 1..Len(java_base_jmod.entries) : java_base_jmod.entries[k].filename = PolicyFile

\* C15: once the archive has been read, the patch result is 'not found' exactly
\* when the source java.base archive has no lib/security/default.policy entry, and
\* then the call aborts with no jlink command built; on an archive without that
\* entry jlink is never run and nothing ever exists at the destination.
C15_PolicyNotFoundAborts ==
    /\ policy_result # "unset" =>
          /\ policy_result = "not found" <=> ~HasPolicyEntry
          /\ policy_result = "not found" =>
                /\ abort.kind = "policy not found"
                /\ pc \in {"finally", "aborted"}
                /\ jlink = <<>>
    /\ ~HasPolicyEntry => ~JlinkInvoked /\ dst_jdk_dir = {}

\* The call has ended over an archive with entries, none of them the policy.
C15_Witness ==
    /\ pc = "aborted"
    /\ policy_result = "not found"
    /\ Len(java_base_jmod.entries) = 2
    /\ patched_java_base # <<>>

(* ------------------------------------------------------------------ C16 *)

\* lib/src.zip of the new image has been written.
SrcZipWritten == "lib/src.zip" \in dst_jdk_dir

\* The names of the file entries of the src.zip of the source JDK.
BaseNames ==
    IF jdk_src_zip.isfile
    THEN {jdk_src_zip.entries[i].name : i \in {k \in 1..Len(jdk_src_zip.entries) :
                                                 ~EndsWithSlash(jdk_src_zip.entries[k].name)}}
    ELSE {}

\* The names of the modules being linked in: supplied and synthetic.
ReplacedModules == {modules[i].name : i \in 1..Len(modules)}

\* An entry belongs to a module when it lies under the directory of that name.
BelongsTo(entry, module) == startswith(entry, module \o <<Slash>>)

\* The modules whose source-inclusion predicate is true.
SourceIncluded ==
    {m \in ReplacedModules : (IF m \in SyntheticNames THEN <<>> ELSE m) \in with_source}

\* The entries that a source-included module brings: its own sources under its
\* directory, and its module-info.java.
OwnEntries(m) ==
    {EntryName(m, ModuleInfoJava)}
        \cup (IF m \in DOMAIN module_src_zips /\ m \notin SyntheticNames
              THEN {EntryName(m, module_src_zips[m][i].name) :
                      i \in {k \in 1..Len(module_src_zips[m]) :
                                ~EndsWithSlash(module_src_zips[m][k].name)}}
              ELSE {})

\* C16 as stated: the entry names of the written source bundle are those of the base
\* runtime's src.zip that belong to no supplied or synthetic module, together with,
\* for every source-included module, its own source entries under <module name>/
\* and <module name>/module-info.java. Line 709 breaks it when the name of one
\* module is a prefix of the name of another.
C16_SourceBundleEntries ==
    SrcZipWritten =>
        {dst_src_zip[i].name : i \in 1..Len(dst_src_zip)} =
            {n \in BaseNames : \A m \in ReplacedModules : ~BelongsTo(n, m)}
                \cup UNION {OwnEntries(m) : m \in SourceIncluded}

(* ------------------------------------------------------------------ C17 *)

\* The dict that lines 646-723 make when the src.zip of the source JDK lists
\* its entries in the order es.
SourcesFrom(es) ==
    ModuleSources(JdkSources([jdk_src_zip EXCEPT !.entries = es]), modules,
                  synthetic_modules, module_src_zips, with_source)

\* C17: the written source bundle is a function of the inputs of the call alone:
\* it is the list of the (entry name, content) pairs of the assembled sources, each
\* entry name once, in ascending order of entry name, whatever the order in which
\* the src.zip of the source JDK lists its entries; two runs on the same inputs
\* write the same list.
C17_SourceBundleDeterministic ==
    SrcZipWritten =>
        /\ StrictlyAscending([i \in 1..Len(dst_src_zip) |-> dst_src_zip[i].name])
        /\ \A es \in Reorderings(jdk_src_zip.entries) :
              /\ Len(dst_src_zip) = Cardinality(DOMAIN SourcesFrom(es))
              /\ \A i \in 1..Len(dst_src_zip) :
                    /\ dst_src_zip[i].name \in DOMAIN SourcesFrom(es)
                    /\ dst_src_zip[i].contents = SourcesFrom(es)[dst_src_zip[i].name]

\* A bundle of three or more entries has been written, from a source JDK whose
\* src.zip lists them in another order than the ascending one.
C17_Witness ==
    /\ SrcZipWritten
    /\ Len(dst_src_zip) >= 3
    /\ Len(jdk_src_zip.entries) >= 2
    /\ ~StrictlyAscending([i \in 1..Len(jdk_src_zip.entries) |-> jdk_src_zip.entries[i].name])
    /\ \E i \in 1..Len(dst_src_zip) : dst_src_zip[i].contents.origin = "jdk"

(* ------------------------------------------------------------------ C18 *)

\* A file of the source lib/static tree that the destination tree lacks at the
\* same relative path, or has with another content hash.
BadlyCopied(f) ==
    f \notin DOMAIN dst_static.files \/ dst_static.files[f] # lib_static.files[f]

\* C18 as stated: when the copy of lib/static has raised a copy error, the call
\* aborts ('Error copying static libraries') if some file of the source tree is
\* missing at the same relative path of the destination tree or has another
\* content hash there, and goes on without that error only if every source file
\* is in the destination with the same hash. Line 806 breaks it: the handler
\* compares each source file with itself.
C18_CopyErrorVerified ==
    dst_static.raised = "shutil.Error" =>
        (abort.kind = "error copying static libraries"
            <=> \E f \in DOMAIN lib_static.files : BadlyCopied(f))

(* ------------------------------------------------------------------ C19 *)

\* The call has got to line 606: <dst_jdk_dir>.build was created or reused.
BuildDirMade ==
    /\ pc \notin {"start", "describe"}
    /\ abort.kind \notin {"cannot derive", "non-zero exit", "bad hashes line"}

\* The aborts raised inside the try block of lines 609-830.
AbortsInTry ==
    {"unresolved targets", "javac failed", "jmod create failed", "unexpected jmod header",
     "policy not found", "invalid modules", "probe failed", "jlink failed",
     "error writing src.zip", "copytree failed", "copy2 failed",
     "error copying static libraries"}

\* C19: in a call that created or reused the scratch build directory, once the
\* try block is left (so before the CDS archive is generated, and when the call
\* has ended, on success or on any abort raised in the try block) the directory is
\* gone if the run is not verbose and still there if it is verbose; in verbose mode
\* it is there at every moment after its creation.
C19_BuildDirRemoved ==
    BuildDirMade =>
        /\ pc \in {"cds", "done", "aborted"} => (build_dir <=> verbose)
        /\ verbose => build_dir
        /\ Runs("java -Xshare:dump") > 0 /\ ~verbose => ~build_dir
        /\ pc = "aborted" =>
              abort.kind \in AbortsInTry \cup {"error generating CDS shared archive"}

\* A quiet call has ended on an abort raised in the try block after the java.base
\* archive was patched, and the build directory is gone.
C19_Witness ==
    /\ pc = "aborted"
    /\ abort.kind = "invalid modules"
    /\ policy_result = "modified"
    /\ ~verbose
    /\ ~build_dir

(* ------------------------------------------------------------------ C20 *)

\* The aborts raised after the jlink run of line 786 has succeeded.
AbortsAfterLink ==
    {"error writing src.zip", "copytree failed", "copy2 failed",
     "error copying static libraries", "error generating CDS shared archive"}

\* C20 as stated: a call that has aborted, at whatever step, leaves no image
\* directory at the destination. An abort after a successful jlink run breaks it.
C20_NoPartialImage ==
    pc = "aborted" => "image" \notin dst_jdk_dir

\* C20 as amended: a call that aborts before jlink has run successfully leaves
\* nothing at the destination; a call that aborts later (writing the source
\* bundle, copying the static libraries, generating the CDS archive) leaves there
\* the image that jlink made, without a CDS archive, as no step removes it; a call
\* that completes leaves the image with its src.zip and its CDS archive.
C20_ImageOnceLinked ==
    /\ pc = "aborted" /\ abort.kind \notin AbortsAfterLink => dst_jdk_dir = {}
    /\ pc = "aborted" /\ abort.kind \in AbortsAfterLink =>
          "image" \in dst_jdk_dir /\ "CDS archive" \notin dst_jdk_dir
    /\ pc = "done" => {"image", "lib/src.zip", "CDS archive"} \subseteq dst_jdk_dir

\* A call has aborted over the source bundle, the image of jlink being there.
C20_Witness ==
    /\ pc = "aborted"
    /\ abort.kind = "error writing src.zip"
    /\ dst_jdk_dir = {"image"}

(* ------------------------------------------------------------------ C21 *)

\* The objects whose register_graalvm_component call returned.
RegisteredObjects == {registered[i] : i \in 1..Len(registered)}

\* Those of them that were registered under the short name s.
Under(s) == {c \in RegisteredObjects : components[c].short_name = s}

\* The short names under which an object was registered.
ShortNamesUsed == {components[c].short_name : c \in RegisteredObjects}

\* As long as no call has aborted or raised, the short-name table has an entry
\* for exactly the short names used, and the entry of a short name is an object
\* registered under it whose priority is greater than that of every other object
\* registered under it.
HighestPriorityHeld ==
    exception = "none" =>
        /\ DOMAIN _graalvm_components = ShortNamesUsed
        /\ \A s \in ShortNamesUsed :
              LET held == _graalvm_components[s]
              IN /\ held \in Under(s)
                 /\ \A c \in Under(s) \ {held} :
                       components[c].priority < components[held].priority

\* A register_graalvm_component call for a component (its names free of commas)
\* whose short name has an entry: with a priority below that of the entry the call
\* returns and both tables are as before; with the priority of the entry the call
\* ends in mx.abort and both tables are as before.
LowerOrEqualLeavesTables ==
    Register =>
        LET component == components[Len(components)]
            s == component.short_name
        IN s \in DOMAIN _graalvm_components
           /\ ~HasComma(s) /\ ~HasComma(component.name) =>
              LET _prev == components[_graalvm_components[s]]
              IN /\ component.priority < _prev.priority =>
                    /\ exception' = "none"
                    /\ Len(registered') = Len(registered) + 1
                    /\ UNCHANGED <<_graalvm_components, _graalvm_components_by_name>>
                 /\ component.priority = _prev.priority =>
                    /\ exception' = "mx.abort"
                    /\ UNCHANGED <<_graalvm_components, _graalvm_components_by_name>>

\* C21: after any sequence of register_graalvm_component calls none of which
\* aborted, the short-name table holds, for every short name, the registered
\* component of strictly highest priority; registering a component of lower
\* priority than the one held changes neither table, and registering one of equal
\* priority aborts and changes neither table.
C21_HighestPriorityHeld ==
    []HighestPriorityHeld /\ [][LowerOrEqualLeavesTables]_vars

\* Three components were registered under one short name: the second took the
\* place of the first and the third, of lower priority, was ignored.
C21_Witness ==
    /\ exception = "none"
    /\ \E s \in ShortNamesUsed : \E c, d, e \in Under(s) :
          /\ c < d /\ d < e
          /\ components[c].priority < components[d].priority
          /\ components[e].priority < components[d].priority
          /\ _graalvm_components[s] = d

(* ------------------------------------------------------------------ C22 *)

\* The objects that a table holds.
Values(d) == {d[k] : k \in DOMAIN d}

\* The object that graalvm_component_by_name(name) returns, 0 if it returns none.
ByName(name) ==
    graalvm_component_by_name(name, TRUE, _graalvm_components,
                              _graalvm_components_by_name).component

\* C22: after any sequence of register_graalvm_component calls none of which
\* aborted, the by-name table holds exactly the components that the short-name
\* table holds; every component held under its short name is what
\* graalvm_component_by_name returns for its name and for its short name, and a
\* component that was overridden is not returned for its name. Components of
\* different short names with one name, or a name that is the short name of
\* another component, break it.
C22_IndexesConsistent ==
    exception = "none" =>
        /\ Values(_graalvm_components_by_name) = Values(_graalvm_components)
        /\ \A c \in Values(_graalvm_components) :
              /\ ByName(components[c].name) = c
              /\ ByName(components[c].short_name) = c
        /\ \A c \in RegisteredObjects \ Values(_graalvm_components) :
              ByName(components[c].name) # c

(* ------------------------------------------------------------------ C23 *)

\* The stability that the deprecated attributes stand for.
DeprecatedStability(supported, early_adopter) ==
    CASE supported = "True" /\ early_adopter -> "earlyadopter"
      [] supported = "True" /\ ~early_adopter -> "supported"
      [] supported # "True" /\ early_adopter -> "experimental-earlyadopter"
      [] OTHER -> "experimental"

\* C23: a component constructed with a stability argument that is not None and
\* with neither deprecated attribute (supported None, early_adopter False) has
\* that argument as its stability; a component constructed with a deprecated
\* attribute and no stability argument has the stability the deprecated attributes
\* stand for; no component is constructed from a stability argument together with
\* a deprecated attribute (the call aborts). The first part fails: lines 292-301
\* assign stability in every call.
C23_StabilityAsGiven ==
    \A i \in 1..Len(components) :
        LET a == declared[i]
            deprecated == a.supported # "None" \/ a.early_adopter
        IN /\ ~(deprecated /\ a.stability # "None")
           /\ a.stability # "None" /\ ~deprecated =>
                 components[i].stability = a.stability
           /\ a.stability = "None" /\ deprecated =>
                 components[i].stability =
                     DeprecatedStability(a.supported, a.early_adopter)

====
